---------------------------- MODULE Spec2Model ----------------------------
(***************************************************************************)
(* VISCA-over-SRT gateway (koensayr/srt_example): the frame codec of       *)
(* include/visca_srt_common.hpp and include/ndi_tally_common.hpp, the      *)
(* server of visca_srt_server.cpp and the client of visca_srt_client.cpp.  *)
(*                                                                         *)
(* Bytes are naturals in 0..255, buffers are sequences of bytes.  C++      *)
(* indices are 0-based: At(buf, i) is buf[i] of the source.                *)
(***************************************************************************)
EXTENDS Integers, Sequences, FiniteSets, TLC

(***************************************************************************)
(* Byte helpers                                                            *)
(***************************************************************************)
At(buf, i) == buf[i + 1]

\* buffer.begin() + from .. buffer.begin() + to   (half-open, 0-based)
Range(buf, from, to) == SubSeq(buf, from + 1, to)

\* htons + unaligned store at offset i: the high byte comes first
Hi(x) == (x \div 256) % 256
Lo(x) == x % 256

\* ntohs(*(uint16_t*)(buf.data() + i))
U16At(buf, i) == At(buf, i) * 256 + At(buf, i + 1)

Zeros(n) == [i \in 1..n |-> 0]

Min(a, b) == IF a < b THEN a ELSE b

(***************************************************************************)
(* Enumerations                                                            *)
(***************************************************************************)
VISCA == 1
NDI_TALLY == 2

COMMAND == 1
RESPONSE == 2
INQUIRY == 3
ERROR == 255

OFF == 0
PROGRAM == 1
PREVIEW == 2
PROGRAM_PREVIEW == 3

COMMAND_PREFIX == 129
INQUIRY_PREFIX == 130
RESPONSE_PREFIX == 144
TERMINATOR == 255

(***************************************************************************)
(* ViscaMessage::serialize / ViscaMessage::deserialize                     *)
(***************************************************************************)
ViscaSerialize(m) ==
    << m.protocol_type, m.type, m.camera_id,
       Hi(m.sequence), Lo(m.sequence), Hi(m.length), Lo(m.length) >> \o m.data

NoMsg == [protocol_type |-> 0]

Thrown(what) == [ok |-> FALSE, what |-> what, msg |-> NoMsg]
Returned(m) == [ok |-> TRUE, what |-> "", msg |-> m]

\* a plausible slip: ntohs is forgotten on the sequence field
ViscaDeserialize_noswap(buffer) ==
    IF Len(buffer) < 7
    THEN Thrown("Message too short for header")
    ELSE LET length == U16At(buffer, 5)
         IN  IF Len(buffer) < length + 7
             THEN Thrown("Message data incomplete")
             ELSE Returned([protocol_type |-> VISCA,
                            type |-> At(buffer, 1),
                            camera_id |-> At(buffer, 2),
                            sequence |-> At(buffer, 4) * 256 + At(buffer, 3),
                            length |-> length,
                            data |-> Range(buffer, 7, 7 + length)])

\* a plausible slip: the second length check is left out
ViscaDeserialize_unchecked(buffer) ==
    IF Len(buffer) < 7
    THEN Thrown("Message too short for header")
    ELSE LET length == U16At(buffer, 5)
         IN  Returned([protocol_type |-> VISCA,
                       type |-> At(buffer, 1),
                       camera_id |-> At(buffer, 2),
                       sequence |-> U16At(buffer, 3),
                       length |-> length,
                       data |-> Range(buffer, 7, Min(7 + length, Len(buffer)))])

ViscaDeserialize(buffer) ==
    IF Len(buffer) < 7
    THEN Thrown("Message too short for header")
    ELSE LET length == U16At(buffer, 5)
         IN  IF Len(buffer) < length + 7
             THEN Thrown("Message data incomplete")
             ELSE Returned([protocol_type |-> VISCA,
                            type |-> At(buffer, 1),
                            camera_id |-> At(buffer, 2),
                            sequence |-> U16At(buffer, 3),
                            length |-> length,
                            data |-> Range(buffer, 7, 7 + length)])

(***************************************************************************)
(* NdiTallyMessage::serialize / NdiTallyMessage::deserialize               *)
(***************************************************************************)
\* A uint32_t is kept as its two 16-bit halves << high, low >>: its value is
\* high * 65536 + low.
\* a plausible slip: the timestamp is written low byte first
NdiSerialize_le(m) ==
    << m.protocol_type, m.state, Len(m.ndi_source_name) % 256,
       m.timestamp[2] % 256,
       (m.timestamp[2] \div 256) % 256,
       m.timestamp[1] % 256,
       (m.timestamp[1] \div 256) % 256 >> \o m.ndi_source_name

\* (timestamp >> 24) & 0xFF, (timestamp >> 16) & 0xFF, (timestamp >> 8) & 0xFF,
\* timestamp & 0xFF
NdiSerialize(m) ==
    << m.protocol_type, m.state, Len(m.ndi_source_name) % 256,
       (m.timestamp[1] \div 256) % 256,
       m.timestamp[1] % 256,
       (m.timestamp[2] \div 256) % 256,
       m.timestamp[2] % 256 >> \o m.ndi_source_name

NdiDeserialize(buffer) ==
    IF Len(buffer) < 7
    THEN Thrown("Buffer too small for NDI tally message")
    ELSE LET name_length == At(buffer, 2)
             timestamp == << At(buffer, 3) * 256 + At(buffer, 4),
                             At(buffer, 5) * 256 + At(buffer, 6) >>
         IN  IF Len(buffer) < 7 + name_length
             THEN Thrown("Buffer too small for NDI source name")
             ELSE Returned([protocol_type |-> NDI_TALLY,
                            ndi_source_name |-> Range(buffer, 7, 7 + name_length),
                            state |-> At(buffer, 1),
                            timestamp |-> timestamp])

\* a plausible slip: the terminator is not looked at
validate_message_noterm(data) ==
    /\ data # << >>
    /\ data[1] \in {COMMAND_PREFIX, INQUIRY_PREFIX, RESPONSE_PREFIX}

\* visca_util::validate_message
validate_message(data) ==
    /\ data # << >>
    /\ data[1] \in {COMMAND_PREFIX, INQUIRY_PREFIX, RESPONSE_PREFIX}
    /\ data[Len(data)] = TERMINATOR


(***************************************************************************)
(* Configuration and inputs                                                *)
(***************************************************************************)
\* config "cameras" of the server, config "endpoints" of the client
ServerCams == {1, 3}
Endpoints == {1, 3}

\* the tally commands and the "cameras" array of the configuration file, in
\* file order
ProgramCommand == << 129, 1, 126, 1, 10, 0, 2, 255 >>
PreviewCommand == << 129, 1, 126, 1, 10, 0, 1, 255 >>
OffCommand == << 129, 1, 126, 1, 10, 0, 3, 255 >>

SourceA == << 65 >>
SourceB == << 66 >>

ConfigMapping(source_name, preview_enabled) ==
    [source_name |-> source_name,
     tally_program_enabled |-> TRUE, tally_preview_enabled |-> preview_enabled,
     commands |-> [program |-> ProgramCommand, preview |-> PreviewCommand,
                   off |-> OffCommand]]

ConfigCameras(preview_enabled) ==
    << [id |-> 1, ndi_mapping |-> ConfigMapping(SourceA, preview_enabled)],
       [id |-> 3, ndi_mapping |-> ConfigMapping(SourceB, TRUE)] >>

\* NdiCameraMapping as default-constructed
NoMapping ==
    [ndi_source_name |-> << >>,
     tally_program_enabled |-> TRUE, tally_preview_enabled |-> TRUE,
     program_tally_command |-> << >>, preview_tally_command |-> << >>,
     tally_off_command |-> << >>]

\* init_ndi_tally_config for camera id: the mapping is read from
\* config_["cameras"][id-1], the entry at position id of the array (a
\* position past its end holds null); source_name and commands are read, the
\* other keys of the entry are not
init_ndi_tally_config(config, id) ==
    IF id >= 1 /\ id <= Len(config)
    THEN LET mapping == config[id].ndi_mapping
         IN  [NoMapping EXCEPT
                !.ndi_source_name = mapping.source_name,
                !.program_tally_command = mapping.commands.program,
                !.preview_tally_command = mapping.commands.preview,
                !.tally_off_command = mapping.commands.off]
    ELSE NoMapping

\* SRT sessions of the listener: the session of the client of
\* visca_srt_client.cpp, and one of another SRT caller (a tally router or a
\* controller gateway speaking the wire format of the codec)
ClientSession == "client"
PeerSession == "peer"
Sessions == {ClientSession, PeerSession}

\* std::vector<uint8_t> buffer(1500)
BufferSize == 1500

MaxControllerSends == 2
MaxPeerSends == 2
MaxCameraSends == 1
MaxCloses == 1

PanCommand == << 129, 1, 6, 1, 10, 10, 3, 1, 255 >>
AckReply == << 144, 65, 255 >>

\* 256 bytes read from a controller in one recv(): a two-byte command
\* preceded by three bytes and followed by further traffic
Burst == << 129, 0, 2, 129, 255 >> \o Zeros(251)

Payloads == {PanCommand, Burst}
CameraReplies == {AckReply}

\* a plausible slip: the frame is built with sequence 0, as monitor_cameras
\* builds the messages it queues
ViscaFrame_unsequenced(type, camera_id, sequence, data) ==
    ViscaSerialize([protocol_type |-> VISCA, type |-> type,
                    camera_id |-> camera_id, sequence |-> 0,
                    length |-> Len(data), data |-> data])

ViscaFrame(type, camera_id, sequence, data) ==
    ViscaSerialize([protocol_type |-> VISCA, type |-> type,
                    camera_id |-> camera_id, sequence |-> sequence,
                    length |-> Len(data), data |-> data])

TallyFrame(name, state, timestamp) ==
    NdiSerialize([protocol_type |-> NDI_TALLY, ndi_source_name |-> name,
                  state |-> state, timestamp |-> timestamp])

\* datagrams of the other SRT caller
PanFrame == ViscaFrame(COMMAND, 3, 1, PanCommand)
TruncatedFrame == SubSeq(PanFrame, 1, 9)
OneByteFrame == << VISCA >>
UnknownTagFrame == << 7, 1, 3, 0, 1, 0, 2, 129, 255 >>
\* declares 256 payload bytes and carries 3
MismatchFrame == << VISCA, 0, 1, 3, 0, 1, 0, 2, 129, 255 >>
\* a well-formed frame: an inquiry for camera 3, sequence 261, with 256
\* payload bytes (several commands in one read)
BurstPayload == << 129, 129 >> \o Zeros(127) \o << 255 >> \o Zeros(125) \o << 255 >>
BurstFrame == ViscaFrame(INQUIRY, 3, 261, BurstPayload)
TallyAB == TallyFrame(<< 65, 66 >>, PROGRAM, << 256, 0 >>)
\* decoded by the server as a command for camera 3 whose payload 81 00 lacks
\* the terminator
UnterminatedFrame == << VISCA, 0, 1, 3, 0, 1, 0, 2, 129, 0 >>

\* tally datagrams of the other SRT caller: source A goes Program, Preview,
\* Off; a source BA and a source BAC
TallyAProgram == TallyFrame(SourceA, PROGRAM, << 0, 100 >>)
TallyAPreview == TallyFrame(SourceA, PREVIEW, << 0, 250 >>)
TallyAOff == TallyFrame(SourceA, OFF, << 0, 400 >>)
TallyBA == TallyFrame(<< 66, 65 >>, PROGRAM, << 256, 0 >>)
TallyBAC == TallyFrame(<< 66, 65, 67 >>, OFF, << 256, 0 >>)

TallyDatagrams == {TallyAProgram, TallyAPreview, TallyAOff, TallyBA, TallyBAC}

MaxTallySends == 2

PeerDatagrams ==
    {PanFrame, TruncatedFrame, OneByteFrame, UnknownTagFrame,
     MismatchFrame, BurstFrame, TallyAB, UnterminatedFrame}

\* values an uninitialised ViscaMessage field may hold
UninitCameraIds == ServerCams \cup {9}
UninitTypes == {COMMAND, RESPONSE}
UninitSequences == {0, 258}

(***************************************************************************)
(* State                                                                   *)
(***************************************************************************)
VARIABLES
    cameras,            \* server: id -> [connected]
    camLink,            \* TCP connection server-camera: "none", "up", "down"
    fromCamera,         \* bytes a camera has sent that the server has not read
    message_queues,     \* server: id -> queue filled by monitor_cameras
    ndi_tally_states_,  \* server: source name -> tally state
    cameras_mutex,      \* "free", or the session whose worker holds it in recv()
    session,            \* "pending" (connected, not accepted) or "accepted"
    worker,             \* per session: handle_srt_client
    srt_in,             \* per session: datagrams on their way to the server
    srt_out,            \* per session: datagrams on their way to the caller
    last,               \* per session: what the last datagram received did
    endpoints,          \* client: camera_id -> [connected]
    epLink,             \* TCP connection client-controller
    fromController,     \* bytes a controller has sent that the client has not read
    sequence_counter,   \* client
    response_buffer,    \* client: the written part of buffer in handle_srt_responses
    client_pc,          \* "running" or "crashed"
    clog,               \* frames the client has sent: [camera_id, sequence, payload, frame]
    clast,              \* what the last datagram the client received did
    sends,              \* chunks sent by controllers, the peer and cameras; closes
    codec,              \* the codec applied to one message
    config_,            \* server: the "cameras" array of the configuration file
    ndi_mapping,        \* server: id -> the NdiCameraMapping of the camera
    current_tally_state, \* server: id -> tally state last sent to the camera
    tally_log,          \* tally datagrams received, ticks, tally commands written
    lock_order,         \* server: pairs << mutex held, mutex taken inside it >>
    running,            \* the running flag of the server and of the client
    g_running,          \* the flag the signal handler of each program clears
    thread,             \* where the threads of the two programs are
    srt_sockets         \* SRT handle -> srt_close calls made, state of its SrtSocket

vars == << cameras, camLink, fromCamera, message_queues, ndi_tally_states_,
           cameras_mutex, session, worker, srt_in, srt_out, last,
           endpoints, epLink, fromController, sequence_counter,
           response_buffer, client_pc, clog, clast, sends, codec,
           config_, ndi_mapping, current_tally_state, tally_log, lock_order,
           running,
           g_running,
           thread,
           srt_sockets >>

serverVars == << cameras, camLink, fromCamera, message_queues,
                 ndi_tally_states_, cameras_mutex, session, worker, last >>
clientVars == << endpoints, epLink, fromController, sequence_counter,
                 response_buffer, client_pc, clog, clast >>
tallyVars == << config_, ndi_mapping, current_tally_state, tally_log,
               lock_order >>
lifeVars == << running, g_running, thread >>

\* the SRT handles of a run: the listener that ViscaSrtServer::start creates,
\* the socket ViscaSrtClient::start creates and connects, and for every
\* caller the handle the SrtSocket constructor creates inside accept() and
\* the handle srt_accept returned, which accept() puts in its place
SrtHandles ==
    {<< "listener", "server" >>, << "connect", "client" >>}
      \cup ({"created", "adopted"} \X Sessions)

\* srt_close(h)
srt_close(table, h) == [table EXCEPT ![h].closes = @ + 1]

\* SrtSocket::accept for caller s: make_unique<SrtSocket>() creates a
\* handle, then socket_ is assigned the accepted one
SrtAccept(table, s) ==
    [table EXCEPT ![<< "created", s >>].wrapper = "alive",
                  ![<< "adopted", s >>].wrapper = "alive"]

\* ~SrtSocket of the object accept() returned for caller s: srt_close of
\* socket_, which is the accepted handle
SrtDestroyAccepted(table, s) ==
    [srt_close(table, << "adopted", s >>) EXCEPT
        ![<< "created", s >>].wrapper = "destroyed",
        ![<< "adopted", s >>].wrapper = "destroyed"]

\* ~SrtSocket of a listener or of the client's socket
SrtDestroy(table, h) ==
    [srt_close(table, h) EXCEPT ![h].wrapper = "destroyed"]

\* handle_srt_client returns: its client_socket parameter is destroyed
WorkerEnds(s) ==
    srt_sockets' = IF worker'[s].pc = "exited" /\ worker[s].pc # "exited"
                   THEN SrtDestroyAccepted(srt_sockets, s)
                   ELSE srt_sockets

UninitMsg(camera_id, type, sequence) ==
    [protocol_type |-> VISCA, type |-> type, camera_id |-> camera_id,
     sequence |-> sequence, length |-> 0, data |-> << >>]

NoLast ==
    [dgram |-> << >>, buffer |-> << >>, bad |-> FALSE,
     prevBad |-> FALSE, conn |-> [id \in ServerCams |-> FALSE],
     tally |-> << >>, decoded |-> FALSE, msg |-> UninitMsg(0, 0, 0),
     connAtDispatch |-> FALSE, writes |-> << >>, replies |-> << >>]

NoCLast ==
    [dgram |-> << >>, conn |-> [id \in Endpoints |-> FALSE],
     writes |-> << >>]

\* an entry of tally_log: a tally datagram a worker received ("frame"), a
\* pass of handle_ndi_tally that follows a datagram ("tick"), a tally command
\* written to a camera socket ("write")
Event(kind, camera_id, state, bytes, conn) ==
    [kind |-> kind, camera_id |-> camera_id, state |-> state, bytes |-> bytes,
     conn |-> conn]

ServerThreads == {"main", "tally", "monitor"}
ClientThreads == {"cmain", "cmonitor", "creader"}

NoCodec == [stage |-> "idle", kind |-> "none", m |-> NoMsg, buf |-> << >>,
            k |-> 0, out |-> Thrown("")]

\* the state after construction, but for the configuration; counter is the
\* value of the client's sequence_counter
SystemInitAt(counter) ==
    /\ cameras = [id \in ServerCams |-> [connected |-> FALSE]]
    /\ camLink = [id \in ServerCams |-> "none"]
    /\ fromCamera = [id \in ServerCams |-> << >>]
    /\ message_queues = [id \in ServerCams |-> << >>]
    /\ ndi_tally_states_ = << >>
    /\ cameras_mutex = "free"
    /\ session = [s \in Sessions |-> "pending"]
    /\ worker = [s \in Sessions |->
                   [pc |-> "none", bufsize |-> BufferSize, decoded |-> FALSE,
                    msg |-> UninitMsg(0, 0, 0)]]
    /\ srt_in = [s \in Sessions |-> << >>]
    /\ srt_out = [s \in Sessions |-> << >>]
    /\ last = [s \in Sessions |-> NoLast]
    /\ endpoints = [id \in Endpoints |-> [connected |-> FALSE]]
    /\ epLink = [id \in Endpoints |-> "none"]
    /\ fromController = [id \in Endpoints |-> << >>]
    /\ sequence_counter = counter
    /\ response_buffer = << >>
    /\ client_pc = "running"
    /\ clog = << >>
    /\ clast = NoCLast
    /\ sends = [controller |-> 0, peer |-> 0, camera |-> 0, closes |-> 0]
    /\ current_tally_state = [id \in ServerCams |-> OFF]
    /\ tally_log = << >>
    /\ lock_order = {}
    /\ running = [server |-> TRUE, client |-> TRUE]
    /\ g_running = [server |-> TRUE, client |-> TRUE]
    /\ srt_sockets = [h \in SrtHandles |->
                        [closes |-> 0,
                         wrapper |-> IF h[1] \in {"listener", "connect"}
                                     THEN "alive" ELSE "none"]]
    /\ thread = [t \in ServerThreads \cup ClientThreads |->
                   IF t = "main" THEN "accept"
                   ELSE IF t = "cmain" THEN "wait" ELSE "run"]

SystemInit == SystemInitAt(0)

\* the constructor keeps the configuration in config_, and start() fills the
\* mappings from it
LoadConfig(config) ==
    /\ config_ = config
    /\ ndi_mapping = [id \in ServerCams |-> init_ndi_tally_config(config_, id)]

Init ==
    /\ SystemInit
    /\ codec = NoCodec
    /\ LoadConfig(ConfigCameras(TRUE))


(***************************************************************************)
(* Server: visca_srt_server.cpp                                            *)
(***************************************************************************)
\* the accept loop of ViscaSrtServer::start: one detached worker per caller
AcceptClient(s) ==
    /\ thread.main = "accept"
    /\ running.server
    /\ session[s] = "pending"
    /\ session' = [session EXCEPT ![s] = "accepted"]
    /\ worker' = [worker EXCEPT ![s].pc = "recv"]
    /\ UNCHANGED << cameras, camLink, fromCamera, message_queues,
                    ndi_tally_states_, cameras_mutex, srt_in, srt_out, last,
                    sends, codec >>
    /\ UNCHANGED clientVars
    /\ UNCHANGED << tallyVars, lifeVars >>
    /\ srt_sockets' = SrtAccept(srt_sockets, s)

\* ndi_tally_states_[msg.ndi_source_name] = msg.state
process_ndi_tally_message(table, msg) ==
    [n \in DOMAIN table \cup {msg.ndi_source_name} |->
        IF n = msg.ndi_source_name THEN msg.state ELSE table[n]]

\* handle_srt_client, from buffer.resize(received) to the end of the inner
\* try: which way the datagram goes and the size buffer is left with
Ingress(buffer) ==
    LET protocol_type == At(buffer, 0)
        erased == Tail(buffer)
        visca == ViscaDeserialize(erased)
        tally == NdiDeserialize(erased)
    IN  CASE protocol_type = VISCA ->
               [path |-> IF ~visca.ok THEN "thrown"
                         ELSE IF ~validate_message(visca.msg.data) THEN "invalid"
                         ELSE "dispatch",
                size |-> Len(erased), visca |-> visca, tally |-> tally]
          [] protocol_type = NDI_TALLY ->
               [path |-> IF tally.ok THEN "tally" ELSE "thrown",
                size |-> Len(erased), visca |-> visca, tally |-> tally]
          [] OTHER ->
               [path |-> "unknown", size |-> Len(buffer),
                visca |-> visca, tally |-> tally]

\* srt_recv(sock, buf, len) on a message socket: one datagram, cut to len
\* bytes; len = 0 is an error
SrtRecv(d, len) == SubSeq(d, 1, Min(Len(d), len))

\* while (running) at the head of the loop of handle_srt_client: a worker
\* that comes back to it with the flag cleared leaves
LoopTop(pc) == IF pc = "recv" /\ ~running.server THEN "exited" ELSE pc

\* handle_srt_client: srt_recv, the switch on the protocol type and the
\* inner catch clauses.  A decoded and validated VISCA message goes on to
\* process_visca_message; where the inner try ends without continue, control
\* reaches the block that follows it.
WorkerRecv(s) ==
    /\ worker[s].pc = "recv"
    /\ IF worker[s].bufsize = 0 \/ (session[s] = "closed" /\ srt_in[s] = << >>)
       THEN /\ worker' = [worker EXCEPT ![s].pc = "exited"]
            /\ UNCHANGED << srt_in, last, ndi_tally_states_, tally_log >>
       ELSE /\ srt_in[s] # << >>
            /\ LET d == Head(srt_in[s])
                   buffer == SrtRecv(d, worker[s].bufsize)
                   in == Ingress(buffer)
               IN  /\ srt_in' = [srt_in EXCEPT ![s] = Tail(@)]
                   /\ worker' = [worker EXCEPT ![s] =
                        [pc |-> CASE in.path = "dispatch" -> "process"
                                  [] in.path \in {"thrown", "tally"} -> "second"
                                  [] OTHER -> LoopTop("recv"),
                         bufsize |-> in.size,
                         decoded |-> in.path = "dispatch",
                         msg |-> IF in.path = "dispatch" THEN in.visca.msg
                                 ELSE UninitMsg(0, 0, 0)]]
                   /\ ndi_tally_states_' =
                        IF in.path = "tally"
                        THEN process_ndi_tally_message(ndi_tally_states_, in.tally.msg)
                        ELSE ndi_tally_states_
                   /\ last' = [last EXCEPT ![s] =
                        [dgram |-> d, buffer |-> buffer,
                         bad |-> in.path \in {"thrown", "unknown"},
                         prevBad |-> @.bad,
                         conn |-> [id \in ServerCams |-> cameras[id].connected],
                         tally |-> ndi_tally_states_,
                         decoded |-> in.path = "dispatch",
                         msg |-> IF in.path = "dispatch" THEN in.visca.msg
                                 ELSE UninitMsg(0, 0, 0),
                         connAtDispatch |-> FALSE,
                         writes |-> << >>, replies |-> << >>]]
                   /\ tally_log' =
                        IF At(buffer, 0) = NDI_TALLY
                        THEN Append(tally_log, Event("frame", 0, 0, d, << >>))
                        ELSE tally_log
    /\ UNCHANGED << cameras, camLink, fromCamera, message_queues,
                    cameras_mutex, session, srt_out, sends, codec >>
    /\ UNCHANGED clientVars
    /\ UNCHANGED << config_, ndi_mapping, current_tally_state, lock_order,
                    lifeVars >>
    /\ WorkerEnds(s)

\* it != cameras.end() && it->second.connected
CameraUsable(camera_id) ==
    camera_id \in ServerCams /\ cameras[camera_id].connected

\* a plausible slip: cameras_mutex is released before the wait in recv()
Forward_unlocked(s, msg, awaitpc, donepc, first) ==
    LET usable == CameraUsable(msg.camera_id)
        sent == usable /\ camLink[msg.camera_id] = "up"
        wait == sent /\ msg.type \in {COMMAND, INQUIRY}
    IN  /\ worker' = [worker EXCEPT
                         ![s].pc = IF wait THEN awaitpc ELSE LoopTop(donepc),
                         ![s].msg = IF wait \/ donepc = "second" THEN msg
                                    ELSE UninitMsg(0, 0, 0)]
        /\ cameras_mutex' = "free"
        /\ last' = [last EXCEPT
                      ![s].writes = IF sent /\ msg.data # << >>
                                    THEN Append(@, << msg.camera_id, msg.data >>)
                                    ELSE @,
                      ![s].connAtDispatch = IF first THEN usable ELSE @]

\* The forwarding code of process_visca_message, which the block after the
\* inner try of handle_srt_client repeats: look the camera up under
\* cameras_mutex, send msg.data, and for a command or an inquiry wait in
\* recv() for the reply, the mutex held.  send() fails on a connection that
\* is not up; a send of no bytes writes nothing.  msg lives as long as the
\* iteration of the loop.
Forward(s, msg, awaitpc, donepc, first) ==
    LET usable == CameraUsable(msg.camera_id)
        sent == usable /\ camLink[msg.camera_id] = "up"
        wait == sent /\ msg.type \in {COMMAND, INQUIRY}
    IN  /\ worker' = [worker EXCEPT
                         ![s].pc = IF wait THEN awaitpc ELSE LoopTop(donepc),
                         ![s].msg = IF wait \/ donepc = "second" THEN msg
                                    ELSE UninitMsg(0, 0, 0)]
        /\ cameras_mutex' = IF wait THEN s ELSE "free"
        /\ last' = [last EXCEPT
                      ![s].writes = IF sent /\ msg.data # << >>
                                    THEN Append(@, << msg.camera_id, msg.data >>)
                                    ELSE @,
                      ![s].connAtDispatch = IF first THEN usable ELSE @]

\* process_visca_message(msg, client_socket)
WorkerProcess(s) ==
    /\ worker[s].pc = "process"
    /\ cameras_mutex = "free"
    /\ Forward(s, worker[s].msg, "await1", "second", TRUE)
    /\ UNCHANGED << cameras, camLink, fromCamera, message_queues,
                    ndi_tally_states_, session, srt_in, srt_out, sends, codec >>
    /\ UNCHANGED clientVars
    /\ UNCHANGED << tallyVars, lifeVars >>
    /\ WorkerEnds(s)

\* a plausible slip: the replies go out on one socket kept by the server
client_socket_shared(s) == ClientSession

\* the socket accept() returned for the caller, moved into its worker
client_socket(s) == s

\* recv() on the camera socket returns inside process_visca_message or inside
\* the block after the inner try: reply bytes become a Response frame on the
\* caller's SRT socket; end of stream or an error sends nothing
WorkerReply(s) ==
    /\ worker[s].pc \in {"await1", "await2"}
    /\ LET msg == worker[s].msg
           id == msg.camera_id
           nextpc == IF worker[s].pc = "await1" THEN "second" ELSE "recv"
       IN  /\ \/ /\ fromCamera[id] # << >>
                 /\ LET response == SubSeq(Head(fromCamera[id]), 1,
                                           Min(Len(Head(fromCamera[id])), BufferSize))
                        serialized == ViscaFrame(RESPONSE, msg.camera_id,
                                                 msg.sequence, response)
                    IN  /\ srt_out' = [srt_out EXCEPT
                                         ![client_socket(s)] = Append(@, serialized)]
                        /\ last' = [last EXCEPT ![s].replies = Append(@, serialized)]
                 /\ fromCamera' = [fromCamera EXCEPT ![id] = Tail(@)]
              \/ /\ fromCamera[id] = << >>
                 /\ camLink[id] # "up"
                 /\ UNCHANGED << srt_out, last, fromCamera >>
           /\ worker' = [worker EXCEPT
                            ![s].pc = LoopTop(nextpc),
                            ![s].msg = IF nextpc = "second" THEN @
                                       ELSE UninitMsg(0, 0, 0)]
           /\ cameras_mutex' = "free"
    /\ UNCHANGED << cameras, camLink, message_queues, ndi_tally_states_,
                    session, srt_in, sends, codec >>
    /\ UNCHANGED clientVars
    /\ UNCHANGED << tallyVars, lifeVars >>
    /\ WorkerEnds(s)

\* handle_srt_client, the block after the inner try ("Forward to appropriate
\* camera"): msg is the message the VISCA case decoded; on the paths that
\* decoded none its scalar fields hold no defined value and its data is empty
WorkerSecond(s) ==
    /\ worker[s].pc = "second"
    /\ cameras_mutex = "free"
    /\ IF worker[s].decoded
       THEN Forward(s, worker[s].msg, "await2", "recv", FALSE)
       ELSE \E camera_id \in UninitCameraIds, type \in UninitTypes,
               sequence \in UninitSequences :
               Forward(s, UninitMsg(camera_id, type, sequence), "await2", "recv", FALSE)
    /\ UNCHANGED << cameras, camLink, fromCamera, message_queues,
                    ndi_tally_states_, session, srt_in, srt_out, sends, codec >>
    /\ UNCHANGED clientVars
    /\ UNCHANGED << tallyVars, lifeVars >>
    /\ WorkerEnds(s)


\* std::lock_guard objects constructed one inside the scope of the other, in
\* this order: every pair << mutex held, mutex taken >>
Nested(guards) ==
    {<< guards[p[1]], guards[p[2]] >> :
        p \in {q \in (1..Len(guards)) \X (1..Len(guards)) : q[1] < q[2]}}

\* one camera of a monitor_cameras pass: connect_to_camera when the camera
\* is not connected, then select() and recv(): a chunk goes into
\* message_queues, end of stream closes the socket
VisitCamera(id, reachable) ==
    LET connects == ~cameras[id].connected /\ reachable
        skipped == ~cameras[id].connected /\ ~reachable
        link == IF connects THEN "up" ELSE camLink[id]
        pending == IF connects THEN << >> ELSE fromCamera[id]
        readable == ~skipped /\ (pending # << >> \/ link = "down")
        received == IF pending # << >> THEN Min(Len(Head(pending)), BufferSize) ELSE 0
    IN  IF skipped
        THEN [connected |-> FALSE, link |-> camLink[id],
              pending |-> fromCamera[id], queue |-> message_queues[id]]
        ELSE IF readable /\ received > 0
        THEN [connected |-> TRUE, link |-> link, pending |-> Tail(pending),
              queue |-> Append(message_queues[id],
                               [camera_id |-> id, sequence |-> 0,
                                length |-> received,
                                data |-> SubSeq(Head(pending), 1, received)])]
        ELSE IF readable
        THEN [connected |-> FALSE, link |-> "none", pending |-> << >>,
              queue |-> message_queues[id]]
        ELSE [connected |-> TRUE, link |-> link, pending |-> pending,
              queue |-> message_queues[id]]

\* one iteration of the while loop of monitor_cameras: every camera is
\* visited with cameras_mutex held
MonitorCameras ==
    /\ thread.monitor = "run"
    /\ thread.main \notin {"cleanup", "exited"}
    /\ cameras_mutex = "free"
    /\ UNCHANGED << ndi_tally_states_, cameras_mutex, session, worker,
                    srt_in, srt_out, last, sends, codec >>
    /\ UNCHANGED clientVars
    /\ UNCHANGED << config_, ndi_mapping, current_tally_state, tally_log,
                    running, g_running, srt_sockets >>
    /\ thread' = [thread EXCEPT !.monitor = IF running.server THEN "run"
                                            ELSE "exited"]
    /\ \E reachable \in [ServerCams -> BOOLEAN] :
          LET v == [id \in ServerCams |-> VisitCamera(id, reachable[id])]
          IN  /\ cameras' = [id \in ServerCams |-> [connected |-> v[id].connected]]
              /\ camLink' = [id \in ServerCams |-> v[id].link]
              /\ fromCamera' = [id \in ServerCams |-> v[id].pending]
              /\ message_queues' = [id \in ServerCams |-> v[id].queue]
              /\ lock_order' =
                   IF \E id \in ServerCams : v[id].queue # message_queues[id]
                   THEN lock_order \cup Nested(<< "cameras_mutex", "queues_mutex" >>)
                   ELSE lock_order

(***************************************************************************)
(* Server: the tally translator                                            *)
(***************************************************************************)
\* the switch of ViscaCamera::send_tally_command
TallyCommand(mapping, state) ==
    CASE state = PROGRAM -> mapping.program_tally_command
      [] state = PREVIEW -> mapping.preview_tally_command
      [] OTHER -> mapping.tally_off_command

\* a plausible slip: current_tally_state is assigned before send() is tried
send_tally_command_eager(id, state) ==
    LET command == TallyCommand(ndi_mapping[id], state)
    IN  IF ~cameras[id].connected \/ command = << >>
        THEN [connected |-> cameras[id].connected,
              current |-> current_tally_state[id], written |-> << >>]
        ELSE IF camLink[id] # "up"
        THEN [connected |-> FALSE, current |-> state, written |-> << >>]
        ELSE [connected |-> TRUE, current |-> state,
              written |-> << Event("write", id, state, command, << >>) >>]

\* ViscaCamera::send_tally_command(state) on camera id: what it leaves in
\* connected and in current_tally_state, and the bytes it writes.  send()
\* fails on a connection that is not up.
send_tally_command(id, state) ==
    LET command == TallyCommand(ndi_mapping[id], state)
    IN  IF ~cameras[id].connected \/ command = << >>
        THEN [connected |-> cameras[id].connected,
              current |-> current_tally_state[id], written |-> << >>]
        ELSE IF camLink[id] # "up"
        THEN [connected |-> FALSE,
              current |-> current_tally_state[id], written |-> << >>]
        ELSE [connected |-> TRUE, current |-> state,
              written |-> << Event("write", id, state, command, << >>) >>]

\* a plausible slip: the command is sent whether or not the state changed
update_tally_state_always(id, new_state) ==
    send_tally_command(id, new_state)

\* ViscaCamera::update_tally_state(new_state) on camera id
update_tally_state(id, new_state) ==
    IF new_state # current_tally_state[id]
    THEN send_tally_command(id, new_state)
    ELSE [connected |-> cameras[id].connected,
          current |-> current_tally_state[id], written |-> << >>]

\* one camera of a pass of handle_ndi_tally
TallyVisit(id) ==
    LET name == ndi_mapping[id].ndi_source_name
    IN  IF name # << >> /\ name \in DOMAIN ndi_tally_states_
        THEN update_tally_state(id, ndi_tally_states_[name])
        ELSE [connected |-> cameras[id].connected,
              current |-> current_tally_state[id], written |-> << >>]

\* std::map iterates in key order
CameraOrder == << 1, 3 >>

RECURSIVE TallyWrites(_, _)
TallyWrites(ids, v) ==
    IF ids = << >> THEN << >>
    ELSE v[Head(ids)].written \o TallyWrites(Tail(ids), v)

\* one iteration of the while loop of handle_ndi_tally: after the sleep,
\* every camera is visited with ndi_tally_mutex_ and cameras_mutex held; then
\* the running flag is tested
handle_ndi_tally ==
    /\ thread.tally = "run"
    /\ cameras_mutex = "free"
    /\ LET v == [id \in ServerCams |-> TallyVisit(id)]
           NotWrite(e) == e.kind # "write"
           heard == SelectSeq(tally_log, NotWrite)
           follows == heard # << >> /\ heard[Len(heard)].kind = "frame"
           conn == [id \in ServerCams |->
                      cameras[id].connected /\ camLink[id] = "up"]
           mark == IF follows THEN << Event("tick", 0, 0, << >>, conn) >>
                   ELSE << >>
       IN  /\ cameras' = [id \in ServerCams |-> [connected |-> v[id].connected]]
           /\ current_tally_state' = [id \in ServerCams |-> v[id].current]
           /\ tally_log' = tally_log \o mark \o TallyWrites(CameraOrder, v)
    /\ lock_order' = lock_order \cup Nested(<< "ndi_tally_mutex_", "cameras_mutex" >>)
    /\ thread' = [thread EXCEPT !.tally = IF running.server THEN "run"
                                          ELSE "exited"]
    /\ UNCHANGED << camLink, fromCamera, message_queues, ndi_tally_states_,
                    cameras_mutex, session, worker, srt_in, srt_out, last,
                    sends, codec, config_, ndi_mapping, running, g_running,
                    srt_sockets >>
    /\ UNCHANGED clientVars

(***************************************************************************)
(* The cameras and the other SRT caller                                    *)
(***************************************************************************)
CameraSend(id, bytes) ==
    /\ camLink[id] = "up"
    /\ fromCamera[id] = << >>
    /\ sends.camera < MaxCameraSends
    /\ fromCamera' = [fromCamera EXCEPT ![id] = << bytes >>]
    /\ sends' = [sends EXCEPT !.camera = @ + 1]
    /\ UNCHANGED << cameras, camLink, message_queues, ndi_tally_states_,
                    cameras_mutex, session, worker, srt_in, srt_out, last,
                    codec >>
    /\ UNCHANGED clientVars
    /\ UNCHANGED << tallyVars, lifeVars, srt_sockets >>

CameraClose(id) ==
    /\ camLink[id] = "up"
    /\ sends.closes < MaxCloses
    /\ camLink' = [camLink EXCEPT ![id] = "down"]
    /\ sends' = [sends EXCEPT !.closes = @ + 1]
    /\ UNCHANGED << cameras, fromCamera, message_queues, ndi_tally_states_,
                    cameras_mutex, session, worker, srt_in, srt_out, last,
                    codec >>
    /\ UNCHANGED clientVars
    /\ UNCHANGED << tallyVars, lifeVars, srt_sockets >>

PeerSend(d) ==
    /\ sends.peer < MaxPeerSends
    /\ srt_in' = [srt_in EXCEPT ![PeerSession] = Append(@, d)]
    /\ sends' = [sends EXCEPT !.peer = @ + 1]
    /\ UNCHANGED << cameras, camLink, fromCamera, message_queues,
                    ndi_tally_states_, cameras_mutex, session, worker,
                    srt_out, last, codec >>
    /\ UNCHANGED clientVars
    /\ UNCHANGED << tallyVars, lifeVars, srt_sockets >>


TallySend(d) ==
    /\ sends.peer < MaxTallySends
    /\ srt_in' = [srt_in EXCEPT ![PeerSession] = Append(@, d)]
    /\ sends' = [sends EXCEPT !.peer = @ + 1]
    /\ UNCHANGED << cameras, camLink, fromCamera, message_queues,
                    ndi_tally_states_, cameras_mutex, session, worker,
                    srt_out, last, codec >>
    /\ UNCHANGED clientVars
    /\ UNCHANGED << tallyVars, lifeVars, srt_sockets >>

\* the requests of a caller: commands as the server decodes them, with a
\* sequence number of the caller's own
SessionSequence(s) == IF s = ClientSession THEN 1 ELSE 2

SessionRequests(s) ==
    { << VISCA, 0, COMMAND, id, 0, SessionSequence(s), 0, 2, 129, 255 >> :
         id \in ServerCams }

CallerSend(s, d) ==
    /\ sends.peer < MaxPeerSends
    /\ srt_in' = [srt_in EXCEPT ![s] = Append(@, d)]
    /\ sends' = [sends EXCEPT !.peer = @ + 1]
    /\ UNCHANGED << cameras, camLink, fromCamera, message_queues,
                    ndi_tally_states_, cameras_mutex, session, worker,
                    srt_out, last, codec >>
    /\ UNCHANGED clientVars
    /\ UNCHANGED << tallyVars, lifeVars, srt_sockets >>

\* two commands of one caller for camera 3, as the server decodes them, in
\* the order the caller sends them: sequence 1 with payload 81 01 FF, then
\* sequence 2 with payload 81 FF (the shorter frame fits the buffer the
\* first one leaves)
CommandFrames ==
    << << VISCA, 0, COMMAND, 3, 0, 1, 0, 3, 129, 1, 255 >>,
       << VISCA, 0, COMMAND, 3, 0, 2, 0, 2, 129, 255 >> >>

\* a camera answers the command a worker has written to it and waits for
CameraAnswer(id) ==
    /\ camLink[id] = "up"
    /\ fromCamera[id] = << >>
    /\ \E s \in Sessions :
          worker[s].pc \in {"await1", "await2"} /\ worker[s].msg.camera_id = id
    /\ fromCamera' = [fromCamera EXCEPT ![id] = << AckReply >>]
    /\ UNCHANGED << cameras, camLink, message_queues, ndi_tally_states_,
                    cameras_mutex, session, worker, srt_in, srt_out, last,
                    sends, codec >>
    /\ UNCHANGED clientVars
    /\ UNCHANGED << tallyVars, lifeVars, srt_sockets >>

(***************************************************************************)
(* Client: visca_srt_client.cpp                                            *)
(***************************************************************************)
\* ViscaSrtClient::send_visca_command: the buffer handed to srt_send
send_visca_command(msg) ==
    << msg.camera_id, Hi(msg.sequence), Lo(msg.sequence),
       Hi(msg.length), Lo(msg.length) >> \o msg.data

\* std::map iterates in key order
EndpointOrder == << 1, 3 >>

\* a plausible slip: sequence_counter++ for ++sequence_counter
VisitEndpoint_postincrement(id, st, reachable) ==
    LET connects == ~st.endpoints[id].connected /\ reachable
        skipped == ~st.endpoints[id].connected /\ ~reachable
        link == IF connects THEN "up" ELSE st.epLink[id]
        pending == IF connects THEN << >> ELSE st.fromController[id]
        readable == ~skipped /\ (pending # << >> \/ link = "down")
        received == IF pending # << >> THEN Min(Len(Head(pending)), BufferSize) ELSE 0
        msg == [camera_id |-> id,
                sequence |-> st.sequence_counter,
                length |-> received,
                data |-> SubSeq(Head(pending), 1, received)]
    IN  IF skipped
        THEN st
        ELSE IF readable /\ received > 0
        THEN [st EXCEPT !.endpoints[id].connected = TRUE,
                        !.epLink[id] = link,
                        !.fromController[id] = Tail(pending),
                        !.sequence_counter = (msg.sequence + 1) % 65536,
                        !.out = Append(@, send_visca_command(msg)),
                        !.clog = Append(@, [camera_id |-> id,
                                            sequence |-> msg.sequence,
                                            payload |-> msg.data,
                                            frame |-> send_visca_command(msg)])]
        ELSE IF readable
        THEN [st EXCEPT !.endpoints[id].connected = FALSE,
                        !.epLink[id] = "none",
                        !.fromController[id] = << >>]
        ELSE [st EXCEPT !.endpoints[id].connected = TRUE,
                        !.epLink[id] = link,
                        !.fromController[id] = pending]

\* one endpoint of a monitor_endpoints pass: connect_to_endpoint when the
\* endpoint is not connected, then select() and recv(): a chunk is sent
\* over SRT with the next sequence number, end of stream closes the socket
VisitEndpoint(id, st, reachable) ==
    LET connects == ~st.endpoints[id].connected /\ reachable
        skipped == ~st.endpoints[id].connected /\ ~reachable
        link == IF connects THEN "up" ELSE st.epLink[id]
        pending == IF connects THEN << >> ELSE st.fromController[id]
        readable == ~skipped /\ (pending # << >> \/ link = "down")
        received == IF pending # << >> THEN Min(Len(Head(pending)), BufferSize) ELSE 0
        msg == [camera_id |-> id,
                sequence |-> (st.sequence_counter + 1) % 65536,
                length |-> received,
                data |-> SubSeq(Head(pending), 1, received)]
    IN  IF skipped
        THEN st
        ELSE IF readable /\ received > 0
        THEN [st EXCEPT !.endpoints[id].connected = TRUE,
                        !.epLink[id] = link,
                        !.fromController[id] = Tail(pending),
                        !.sequence_counter = msg.sequence,
                        !.out = Append(@, send_visca_command(msg)),
                        !.clog = Append(@, [camera_id |-> id,
                                            sequence |-> msg.sequence,
                                            payload |-> msg.data,
                                            frame |-> send_visca_command(msg)])]
        ELSE IF readable
        THEN [st EXCEPT !.endpoints[id].connected = FALSE,
                        !.epLink[id] = "none",
                        !.fromController[id] = << >>]
        ELSE [st EXCEPT !.endpoints[id].connected = TRUE,
                        !.epLink[id] = link,
                        !.fromController[id] = pending]

RECURSIVE EndpointPass(_, _, _)
EndpointPass(ids, st, reachable) ==
    IF ids = << >> THEN st
    ELSE EndpointPass(Tail(ids),
                      VisitEndpoint(Head(ids), st, reachable[Head(ids)]),
                      reachable)

\* one iteration of the while loop of monitor_endpoints, endpoints_mutex held
MonitorEndpoints ==
    /\ client_pc = "running"
    /\ thread.cmonitor = "run"
    /\ UNCHANGED << response_buffer, client_pc, clast, srt_out, sends, codec >>
    /\ UNCHANGED serverVars
    /\ UNCHANGED << tallyVars, running, g_running, srt_sockets >>
    /\ thread' = [thread EXCEPT !.cmonitor = IF running.client THEN "run"
                                             ELSE "exited"]
    /\ \E reachable \in [Endpoints -> BOOLEAN] :
          LET st == EndpointPass(EndpointOrder,
                                 [endpoints |-> endpoints, epLink |-> epLink,
                                  fromController |-> fromController,
                                  sequence_counter |-> sequence_counter,
                                  out |-> << >>, clog |-> clog],
                                 reachable)
          IN  /\ endpoints' = st.endpoints
              /\ epLink' = st.epLink
              /\ fromController' = st.fromController
              /\ sequence_counter' = st.sequence_counter
              /\ clog' = st.clog
              /\ srt_in' = [srt_in EXCEPT ![ClientSession] = @ \o st.out]

\* buffer[i] of handle_srt_responses: the buffer keeps its 1500 bytes, zero
\* at first, and a datagram overwrites the bytes it brings only
BufferByte(written, i) == IF i < Len(written) THEN At(written, i) ELSE 0

\* handle_srt_responses: srt_recv, the five bytes read as camera_id, sequence
\* and length, and the send to the endpoint of that camera_id.  A length that
\* reaches beyond the buffer is a read past its end: the thread faults, or
\* it reads whatever follows (zeros here).
HandleSrtResponses ==
    /\ client_pc = "running"
    /\ thread.creader = "run"
    /\ thread' = [thread EXCEPT !.creader = IF running.client THEN "run"
                                            ELSE "exited"]
    /\ srt_out[ClientSession] # << >>
    /\ LET d == Head(srt_out[ClientSession])
           received == Min(Len(d), BufferSize)
           written == SubSeq(d, 1, received)
                      \o SubSeq(response_buffer, received + 1, Len(response_buffer))
           camera_id == BufferByte(written, 0)
           length == BufferByte(written, 3) * 256 + BufferByte(written, 4)
           data == [i \in 1..length |-> BufferByte(written, 4 + i)]
           found == camera_id \in Endpoints /\ endpoints[camera_id].connected
           delivered == found /\ epLink[camera_id] = "up" /\ data # << >>
           conn == [id \in Endpoints |-> endpoints[id].connected /\ epLink[id] = "up"]
       IN  /\ srt_out' = [srt_out EXCEPT ![ClientSession] = Tail(@)]
           /\ response_buffer' = written
           /\ IF received < 5
              THEN /\ clast' = [dgram |-> d, conn |-> conn,
                                writes |-> << >>]
                   /\ UNCHANGED client_pc
              ELSE \/ /\ clast' = [dgram |-> d, conn |-> conn,
                                   writes |-> IF delivered
                                              THEN << << camera_id, data >> >>
                                              ELSE << >>]
                      /\ UNCHANGED client_pc
                   \/ /\ 5 + length > BufferSize
                      /\ client_pc' = "crashed"
                      /\ clast' = [dgram |-> d, conn |-> conn,
                                   writes |-> << >>]
    /\ UNCHANGED << endpoints, epLink, fromController, sequence_counter, clog,
                    srt_in, sends, codec >>
    /\ UNCHANGED serverVars
    /\ UNCHANGED << tallyVars, running, g_running, srt_sockets >>

(***************************************************************************)
(* The controllers                                                         *)
(***************************************************************************)
ControllerSend(id, bytes) ==
    /\ epLink[id] = "up"
    /\ fromController[id] = << >>
    /\ sends.controller < MaxControllerSends
    /\ fromController' = [fromController EXCEPT ![id] = << bytes >>]
    /\ sends' = [sends EXCEPT !.controller = @ + 1]
    /\ UNCHANGED << endpoints, epLink, sequence_counter, response_buffer,
                    client_pc, clog, clast, srt_in, srt_out, codec >>
    /\ UNCHANGED serverVars
    /\ UNCHANGED << tallyVars, lifeVars, srt_sockets >>

ControllerClose(id) ==
    /\ epLink[id] = "up"
    /\ sends.closes < MaxCloses
    /\ epLink' = [epLink EXCEPT ![id] = "down"]
    /\ sends' = [sends EXCEPT !.closes = @ + 1]
    /\ UNCHANGED << endpoints, fromController, sequence_counter,
                    response_buffer, client_pc, clog, clast, srt_in, srt_out,
                    codec >>
    /\ UNCHANGED serverVars
    /\ UNCHANGED << tallyVars, lifeVars, srt_sockets >>

(***************************************************************************)
(* Signals, stop() and the end of the two processes                        *)
(***************************************************************************)
Programs == {"server", "client"}

\* signal_handler of either program, run on SIGINT or SIGTERM
signal_handler(p) ==
    /\ g_running[p]
    /\ thread[IF p = "server" THEN "main" ELSE "cmain"] # "exited"
    /\ g_running' = [g_running EXCEPT ![p] = FALSE]
    /\ UNCHANGED << serverVars, clientVars, tallyVars, srt_in, srt_out, sends,
                    codec, running, thread,
                    srt_sockets >>

\* the accept loop of start() when the std::thread of a new caller cannot be
\* created: the exception is not a ViscaSrtException, it leaves start() and
\* main's try block, the accepted socket is destroyed and ~ViscaSrtServer
\* runs
AcceptFails(s) ==
    /\ thread.main = "accept"
    /\ running.server
    /\ session[s] = "pending"
    /\ session' = [session EXCEPT ![s] = "closed"]
    /\ thread' = [thread EXCEPT !.main = "stop"]
    /\ UNCHANGED << cameras, camLink, fromCamera, message_queues,
                    ndi_tally_states_, cameras_mutex, worker, last, srt_in,
                    srt_out, sends, codec, running, g_running >>
    /\ srt_sockets' = SrtDestroyAccepted(SrtAccept(srt_sockets, s), s)
    /\ UNCHANGED << clientVars, tallyVars >>

\* ViscaSrtServer::stop up to ndi_tally_thread_.join()
ServerStop ==
    /\ thread.main = "stop"
    /\ running.server
    /\ running' = [running EXCEPT !.server = FALSE]
    /\ thread' = [thread EXCEPT !.main = "join"]
    /\ UNCHANGED << serverVars, clientVars, tallyVars, srt_in, srt_out, sends,
                    codec, g_running, srt_sockets >>

\* ViscaSrtServer::stop from the return of join(): the listener is closed,
\* cameras_mutex is taken, the cameras are disconnected and the two tables
\* cleared
ServerStopFinish ==
    /\ thread.main = "join"
    /\ thread.tally = "exited"
    /\ cameras_mutex = "free"
    /\ cameras' = [id \in ServerCams |-> [connected |-> FALSE]]
    /\ camLink' = [id \in ServerCams |->
                     IF cameras[id].connected THEN "none" ELSE camLink[id]]
    /\ fromCamera' = [id \in ServerCams |->
                        IF cameras[id].connected THEN << >> ELSE fromCamera[id]]
    /\ ndi_tally_states_' = << >>
    /\ session' = [s \in Sessions |->
                     IF session[s] = "pending" THEN "closed" ELSE session[s]]
    /\ thread' = [thread EXCEPT !.main = "cleanup"]
    /\ UNCHANGED << message_queues, cameras_mutex, worker, last, srt_in,
                    srt_out, sends, codec, running, g_running >>
    /\ srt_sockets' = SrtDestroy(srt_sockets, << "listener", "server" >>)
    /\ UNCHANGED << clientVars, tallyVars >>

\* ~ViscaSrtServer after stop(): srt_cleanup(), and main returns; the
\* detached threads end with the process
ServerExit ==
    /\ thread.main = "cleanup"
    /\ thread' = [t \in DOMAIN thread |->
                    IF t \in ServerThreads THEN "exited" ELSE thread[t]]
    /\ worker' = [s \in Sessions |->
                    [worker[s] EXCEPT !.pc = IF @ = "none" THEN @ ELSE "exited"]]
    /\ session' = [s \in Sessions |-> "closed"]
    /\ cameras_mutex' = "free"
    /\ camLink' = [id \in ServerCams |-> "none"]
    /\ fromCamera' = [id \in ServerCams |-> << >>]
    /\ UNCHANGED << cameras, message_queues, ndi_tally_states_, last, srt_in,
                    srt_out, sends, codec, running, g_running, srt_sockets >>
    /\ UNCHANGED << clientVars, tallyVars >>

\* main of the client leaves its wait loop and ~ViscaSrtClient runs stop():
\* running is cleared, the SRT socket closed, the endpoints disconnected
ClientStop ==
    /\ client_pc = "running"
    /\ thread.cmain = "wait"
    /\ ~g_running.client
    /\ running' = [running EXCEPT !.client = FALSE]
    /\ session' = [session EXCEPT ![ClientSession] = "closed"]
    /\ endpoints' = [id \in Endpoints |-> [connected |-> FALSE]]
    /\ epLink' = [id \in Endpoints |->
                    IF endpoints[id].connected THEN "none" ELSE epLink[id]]
    /\ fromController' = [id \in Endpoints |->
                            IF endpoints[id].connected THEN << >>
                            ELSE fromController[id]]
    /\ thread' = [thread EXCEPT !.cmain = "cleanup"]
    /\ UNCHANGED << cameras, camLink, fromCamera, message_queues,
                    ndi_tally_states_, cameras_mutex, worker, last,
                    sequence_counter, response_buffer, client_pc, clog, clast,
                    srt_in, srt_out, sends, codec, g_running >>
    /\ srt_sockets' = srt_close(srt_sockets, << "connect", "client" >>)
    /\ UNCHANGED tallyVars

\* handle_srt_responses when srt_recv fails on the closed socket: break
ReaderExit ==
    /\ client_pc = "running"
    /\ thread.creader = "run"
    /\ ~running.client
    /\ thread' = [thread EXCEPT !.creader = "exited"]
    /\ UNCHANGED << serverVars, clientVars, tallyVars, srt_in, srt_out, sends,
                    codec, running, g_running, srt_sockets >>

\* ~ViscaSrtClient after stop(): srt_cleanup(), and main returns; the
\* detached threads and the connections the monitor made since stop() end
\* with the process
ClientExit ==
    /\ thread.cmain = "cleanup"
    /\ thread' = [t \in DOMAIN thread |->
                    IF t \in ClientThreads THEN "exited" ELSE thread[t]]
    /\ endpoints' = [id \in Endpoints |-> [connected |-> FALSE]]
    /\ epLink' = [id \in Endpoints |-> "none"]
    /\ fromController' = [id \in Endpoints |-> << >>]
    /\ srt_sockets' = SrtDestroy(srt_sockets, << "connect", "client" >>)
    /\ UNCHANGED << serverVars, sequence_counter, response_buffer, client_pc,
                    clog, clast, tallyVars, srt_in, srt_out, sends, codec,
                    running, g_running >>

(***************************************************************************)
(* The gateway                                                             *)
(***************************************************************************)
\* the server and the cameras
ServerNext ==
    \/ \E s \in Sessions : WorkerRecv(s)
    \/ \E s \in Sessions : WorkerProcess(s)
    \/ \E s \in Sessions : WorkerReply(s)
    \/ \E s \in Sessions : WorkerSecond(s)
    \/ MonitorCameras
    \/ \E id \in ServerCams, bytes \in CameraReplies : CameraSend(id, bytes)
    \/ \E id \in ServerCams : CameraClose(id)

\* client, SRT session and server: the controllers' bytes go all the way
Next ==
    \/ AcceptClient(ClientSession)
    \/ ServerNext
    \/ MonitorEndpoints
    \/ HandleSrtResponses
    \/ \E id \in Endpoints, bytes \in Payloads : ControllerSend(id, bytes)
    \/ \E id \in Endpoints : ControllerClose(id)

Spec == Init /\ [][Next]_vars

\* the client alone, fresh or with 65534 commands forwarded before
InitSequence ==
    /\ \E counter \in {0, 65534} : SystemInitAt(counter)
    /\ codec = NoCodec
    /\ LoadConfig(ConfigCameras(TRUE))

NextSequence ==
    \/ MonitorEndpoints
    \/ \E id \in Endpoints, bytes \in Payloads : ControllerSend(id, bytes)
    \/ \E id \in Endpoints : ControllerClose(id)

SpecSequence == InitSequence /\ [][NextSequence]_vars

\* the server with another SRT caller
NextServer ==
    \/ AcceptClient(PeerSession)
    \/ ServerNext
    \/ \E d \in PeerDatagrams : PeerSend(d)

SpecServer == Init /\ [][NextServer]_vars

\* the threads of the server are scheduled: a step one of them can take is
\* eventually taken.  The cameras and the SRT caller owe nothing.
FairServer ==
    /\ WF_vars(AcceptClient(PeerSession))
    /\ WF_vars(MonitorCameras)
    /\ \A s \in Sessions :
          /\ WF_vars(WorkerRecv(s))
          /\ WF_vars(WorkerProcess(s))
          /\ WF_vars(WorkerReply(s))
          /\ WF_vars(WorkerSecond(s))

SpecServerLive == SpecServer /\ FairServer

\* the server with a tally source as SRT caller, under a configuration whose
\* mapping of camera 1 has tally_preview_enabled set, and under one that has
\* it cleared
InitTally ==
    /\ SystemInit
    /\ codec = NoCodec
    /\ \E enabled \in BOOLEAN : LoadConfig(ConfigCameras(enabled))

NextTally ==
    \/ AcceptClient(PeerSession)
    \/ WorkerRecv(PeerSession)
    \/ WorkerSecond(PeerSession)
    \/ WorkerReply(PeerSession)
    \/ MonitorCameras
    \/ handle_ndi_tally
    \/ \E d \in TallyDatagrams : TallySend(d)
    \/ \E id \in ServerCams : CameraClose(id)

SpecTally == InitTally /\ [][NextTally]_vars

\* the server with two SRT callers at once
NextSessions ==
    \/ \E s \in Sessions : AcceptClient(s)
    \/ ServerNext
    \/ \E s \in Sessions : \E d \in SessionRequests(s) : CallerSend(s, d)

SpecSessions == Init /\ [][NextSessions]_vars

\* the server with one caller that sends its commands in order, and cameras
\* that answer every command
NextCommands ==
    \/ AcceptClient(PeerSession)
    \/ WorkerRecv(PeerSession)
    \/ WorkerProcess(PeerSession)
    \/ WorkerReply(PeerSession)
    \/ WorkerSecond(PeerSession)
    \/ MonitorCameras
    \/ sends.peer < Len(CommandFrames) /\ PeerSend(CommandFrames[sends.peer + 1])
    \/ \E id \in ServerCams : CameraAnswer(id)
    \/ \E id \in ServerCams : CameraClose(id)

SpecCommands == Init /\ [][NextCommands]_vars

\* well-formed frames that differ in their VISCA type only: an inquiry and a
\* response for camera 3, sequence 261, with 256 payload bytes
DispatchFrames == {BurstFrame, ViscaFrame(RESPONSE, 3, 261, BurstPayload)}

\* the server with one caller that sends them, and cameras that answer
NextDispatch ==
    \/ AcceptClient(PeerSession)
    \/ WorkerRecv(PeerSession)
    \/ WorkerProcess(PeerSession)
    \/ WorkerReply(PeerSession)
    \/ WorkerSecond(PeerSession)
    \/ MonitorCameras
    \/ \E d \in DispatchFrames : PeerSend(d)
    \/ \E id \in ServerCams : CameraAnswer(id)
    \/ \E id \in ServerCams : CameraClose(id)

SpecDispatch == Init /\ [][NextDispatch]_vars

\* the server from start to exit: a signal, a caller whose worker thread
\* cannot be created, and the frames of the other SRT caller that the server
\* forwards to camera 3
NextServerLife ==
    \/ \E s \in Sessions : AcceptClient(s)
    \/ \E s \in Sessions : AcceptFails(s)
    \/ \E s \in Sessions : WorkerRecv(s)
    \/ WorkerProcess(PeerSession)
    \/ WorkerReply(PeerSession)
    \/ WorkerSecond(PeerSession)
    \/ MonitorCameras
    \/ handle_ndi_tally
    \/ CameraSend(3, AckReply)
    \/ PeerSend(MismatchFrame)
    \/ signal_handler("server")
    \/ ServerStop
    \/ ServerStopFinish
    \/ ServerExit

\* the two programs from start to exit
NextLife ==
    \/ NextServerLife
    \/ MonitorEndpoints
    \/ signal_handler("client")
    \/ ClientStop
    \/ ReaderExit
    \/ ClientExit

\* the steps of one thread each: the worker of a caller, main of the server
\* (without the failure to create a thread), main of the client
WorkerThread(s) ==
    WorkerRecv(s) \/ WorkerProcess(s) \/ WorkerReply(s) \/ WorkerSecond(s)

ServerMain ==
    \/ \E s \in Sessions : AcceptClient(s)
    \/ ServerStop
    \/ ServerStopFinish
    \/ ServerExit

ClientMain == ClientStop \/ ClientExit

\* every thread of the two programs is scheduled: a step it can take is
\* eventually taken.  Signals, callers and cameras owe nothing, and neither
\* does the failure to create a thread.
FairServerLife ==
    /\ WF_vars(ServerMain)
    /\ \A s \in Sessions : WF_vars(WorkerThread(s))
    /\ WF_vars(MonitorCameras)
    /\ WF_vars(handle_ndi_tally)

FairLife ==
    /\ FairServerLife
    /\ WF_vars(ClientMain)
    /\ WF_vars(MonitorEndpoints)
    /\ WF_vars(ReaderExit)

SpecServerLife == Init /\ [][NextServerLife]_vars /\ FairServerLife

SpecLife == Init /\ [][NextLife]_vars /\ FairLife

\* the server with a caller that sends a command for camera 3 and then a
\* tally datagram, every thread of the server being scheduled
CommandThenTally == << MismatchFrame, TallyBA >>

NextTallyLive ==
    \/ AcceptClient(PeerSession)
    \/ WorkerRecv(PeerSession)
    \/ WorkerProcess(PeerSession)
    \/ WorkerReply(PeerSession)
    \/ WorkerSecond(PeerSession)
    \/ MonitorCameras
    \/ handle_ndi_tally
    \/ /\ sends.peer < Len(CommandThenTally)
       /\ PeerSend(CommandThenTally[sends.peer + 1])
    \/ \E id \in ServerCams : CameraClose(id)

SpecTallyLive ==
    Init /\ [][NextTallyLive]_vars /\ FairServer /\ WF_vars(handle_ndi_tally)

(***************************************************************************)
(* The codec on its own: one valid message is serialized, the buffer or a  *)
(* proper prefix of it is deserialized                                     *)
(***************************************************************************)
TestCam == << 84, 101, 115, 116, 67, 97, 109 >>
LongestName == [i \in 1..255 |-> 65 + (i % 26)]

\* valid VISCA messages: length is the size of data
ViscaMessages ==
    { [protocol_type |-> VISCA, type |-> t, camera_id |-> c, sequence |-> q,
       length |-> Len(d), data |-> d] :
         t \in {COMMAND, RESPONSE, INQUIRY, ERROR}, c \in {0, 3, 255},
         q \in {0, 1, 258, 65535},
         d \in {<< >>, AckReply, PanCommand, Burst} }

\* valid tally messages: a name of at most 255 bytes, a state of the enumeration
NdiMessages ==
    { [protocol_type |-> NDI_TALLY, ndi_source_name |-> n, state |-> st,
       timestamp |-> ts] :
         n \in {<< >>, << 65 >>, TestCam, LongestName},
         st \in {OFF, PROGRAM, PREVIEW, PROGRAM_PREVIEW},
         ts \in {<< 0, 0 >>, << 0, 258 >>, << 18838, 722 >>, << 65535, 65535 >>} }

CodecSerialize(kind, m) ==
    IF kind = "visca" THEN ViscaSerialize(m) ELSE NdiSerialize(m)

CodecDeserialize(kind, buffer) ==
    IF kind = "visca" THEN ViscaDeserialize(buffer) ELSE NdiDeserialize(buffer)

InitCodec ==
    /\ SystemInit
    /\ LoadConfig(ConfigCameras(TRUE))
    /\ \/ \E m \in ViscaMessages :
             codec = [NoCodec EXCEPT !.stage = "message", !.kind = "visca", !.m = m]
       \/ \E m \in NdiMessages :
             codec = [NoCodec EXCEPT !.stage = "message", !.kind = "ndi", !.m = m]

CodecEncode ==
    /\ codec.stage = "message"
    /\ codec' = [codec EXCEPT !.stage = "serialized",
                              !.buf = CodecSerialize(codec.kind, codec.m),
                              !.k = Len(CodecSerialize(codec.kind, codec.m))]
    /\ UNCHANGED << serverVars, clientVars, srt_in, srt_out, sends >>
    /\ UNCHANGED << tallyVars, lifeVars, srt_sockets >>

CodecTruncate(k) ==
    /\ codec.stage = "serialized"
    /\ k \in 0..(Len(codec.buf) - 1)
    /\ codec' = [codec EXCEPT !.stage = "prefix", !.buf = SubSeq(@, 1, k), !.k = k]
    /\ UNCHANGED << serverVars, clientVars, srt_in, srt_out, sends >>
    /\ UNCHANGED << tallyVars, lifeVars, srt_sockets >>

CodecDecode ==
    /\ codec.stage \in {"serialized", "prefix"}
    /\ codec' = [codec EXCEPT
                   !.stage = IF @ = "serialized" THEN "deserialized"
                             ELSE "prefix_deserialized",
                   !.out = CodecDeserialize(codec.kind, codec.buf)]
    /\ UNCHANGED << serverVars, clientVars, srt_in, srt_out, sends >>
    /\ UNCHANGED << tallyVars, lifeVars, srt_sockets >>

\* the prefixes tried: every length below MaxPrefix, and the longest ones
MaxPrefix == 12

NextCodec ==
    \/ CodecEncode
    \/ \E k \in 0..MaxPrefix : CodecTruncate(k)
    \/ \E k \in 0..MaxPrefix : CodecTruncate(Len(codec.buf) - 1 - k)
    \/ CodecDecode

SpecCodec == InitCodec /\ [][NextCodec]_vars


(***************************************************************************)
(* Properties                                                              *)
(***************************************************************************)
\* the worker of session s has finished with the last datagram it received
Handled(s) == last[s].dgram # << >> /\ worker[s].pc \in {"recv", "exited"}

\* the datagram reached the worker whole (SRT delivered it unchanged)
Whole(s) == last[s].buffer = last[s].dgram

\* a frame of the wire format: VISCA tag, seven header bytes, and as many
\* payload bytes as the length field declares
WellFormed(d) ==
    /\ Len(d) >= 7
    /\ At(d, 0) = VISCA
    /\ U16At(d, 5) = Len(d) - 7

\* C1 Routing identity: once the server has finished with a frame that the
\* client sent for camera C with payload P, camera C being connected and no
\* connection having been closed, the one write to a camera socket that the
\* frame caused is P to camera C.
C1_RoutingIdentity ==
    \A i \in 1..Len(clog) :
        ( /\ Handled(ClientSession)
          /\ Whole(ClientSession)
          /\ last[ClientSession].dgram = clog[i].frame
          /\ clog[i].camera_id \in ServerCams
          /\ last[ClientSession].conn[clog[i].camera_id]
          /\ sends.closes = 0 )
        => last[ClientSession].writes
             = << << clog[i].camera_id, clog[i].payload >> >>

\* C2 Client egress framing: every datagram the client sends for n payload
\* bytes P read from the controller of camera C is 01 01 C, the sequence and
\* n big-endian, then P: 7 + n bytes.
C2_ClientEgressFraming ==
    \A i \in 1..Len(clog) :
        LET P == clog[i].payload
            q == clog[i].sequence
        IN  /\ Len(clog[i].frame) = 7 + Len(P)
            /\ clog[i].frame =
                 << 1, 1, clog[i].camera_id, q \div 256, q % 256,
                    Len(P) \div 256, Len(P) % 256 >> \o P

\* C3 Response return path: when the client has handled a Response frame
\* that the server sent for camera C with reply bytes R, the controller of
\* camera C being connected, the one write to a controller socket is R to
\* the controller of camera C.
C3_ResponseReturnPath ==
    LET d == clast.dgram
        m == ViscaDeserialize(d).msg
    IN  ( /\ d # << >>
          /\ client_pc = "running"
          /\ last[ClientSession].decoded
          /\ \E i \in 1..Len(last[ClientSession].replies) :
                last[ClientSession].replies[i] = d
          /\ WellFormed(d)
          /\ m.type = RESPONSE
          /\ m.camera_id \in Endpoints
          /\ clast.conn[m.camera_id] )
        => clast.writes = << << m.camera_id, m.data >> >>

\* C4 Sequence correlation: every Response frame the server sends in reply
\* to a well-formed request frame carries the sequence and the camera_id of
\* that request frame.
C4_SequenceCorrelation ==
    \A s \in Sessions :
        ( /\ WellFormed(last[s].dgram)
          /\ Whole(s)
          /\ last[s].decoded )
        => \A i \in 1..Len(last[s].replies) :
              /\ U16At(last[s].replies[i], 3) = U16At(last[s].dgram, 3)
              /\ At(last[s].replies[i], 2) = At(last[s].dgram, 2)

\* C5 Codec round-trip: deserializing the serialization of a valid VISCA or
\* tally message returns a message equal to it in every field.
C5_CodecRoundTrip ==
    codec.stage = "deserialized"
        => codec.out.ok /\ codec.out.msg = codec.m

C5_Witness ==
    /\ codec.stage = "deserialized"
    /\ codec.kind = "visca"
    /\ codec.m.data = PanCommand
    /\ codec.m.sequence = 258
    /\ codec.out.msg.data = PanCommand

\* C6 Codec truncation: deserializing the first k bytes of the serialization
\* of a valid message, k below its size, throws: the header error when
\* k < 7, the incomplete-payload (or name) error otherwise; no message is
\* returned.
C6_CodecTruncation ==
    codec.stage = "prefix_deserialized"
        => /\ ~codec.out.ok
           /\ codec.out.msg = NoMsg
           /\ codec.out.what =
                CASE codec.kind = "visca" /\ codec.k < 7 ->
                        "Message too short for header"
                  [] codec.kind = "visca" /\ codec.k >= 7 ->
                        "Message data incomplete"
                  [] codec.kind = "ndi" /\ codec.k < 7 ->
                        "Buffer too small for NDI tally message"
                  [] codec.kind = "ndi" /\ codec.k >= 7 ->
                        "Buffer too small for NDI source name"

C6_Witness ==
    /\ codec.stage = "prefix_deserialized"
    /\ codec.kind = "visca"
    /\ codec.m.data = PanCommand
    /\ codec.k = 15
    /\ ~codec.out.ok

\* C7 NDI tally wire layout: the serialization of a tally message is 02, the
\* state, the length of the source name, the timestamp big-endian in bytes
\* 3..6, then the name, 7 + name length bytes in all; and deserializing it
\* returns the same state, timestamp and source name.
C7_NdiWireLayout ==
    (codec.kind = "ndi" /\ codec.stage \in {"serialized", "deserialized"})
        => LET b == codec.buf
               m == codec.m
           IN  /\ Len(b) = 7 + Len(m.ndi_source_name)
               /\ At(b, 0) = 2
               /\ At(b, 1) = m.state
               /\ At(b, 2) = Len(m.ndi_source_name)
               /\ \A i \in 3..6 : At(b, i) \in 0..255
               /\ At(b, 3) * 256 + At(b, 4) = m.timestamp[1]
               /\ At(b, 5) * 256 + At(b, 6) = m.timestamp[2]
               /\ \A i \in 1..Len(m.ndi_source_name) :
                     At(b, 6 + i) = m.ndi_source_name[i]
               /\ codec.stage = "deserialized"
                    => /\ codec.out.ok
                       /\ codec.out.msg.state = m.state
                       /\ codec.out.msg.timestamp = m.timestamp
                       /\ codec.out.msg.ndi_source_name = m.ndi_source_name

\* 02 01 07 49 96 02 D2 "TestCam", timestamp 1234567890
C7_Witness ==
    /\ codec.stage = "deserialized"
    /\ codec.buf = << 2, 1, 7, 73, 150, 2, 210, 84, 101, 115, 116, 67, 97, 109 >>
    /\ codec.out.msg.state = PROGRAM
    /\ codec.out.msg.timestamp[1] * 65536 + codec.out.msg.timestamp[2] = 1234567890
    /\ codec.out.msg.ndi_source_name = TestCam

\* C8 Bad-frame isolation: a datagram that fails decoding (too short, or an
\* unknown first byte) writes nothing to a camera, leaves the tally table
\* as it was, sends no SRT reply and leaves the worker in its receive loop;
\* and the datagram that follows it is received whole.
C8_BadFrameIsolation ==
    \A s \in Sessions :
        /\ last[s].bad
             => /\ last[s].writes = << >>
                /\ last[s].replies = << >>
                /\ ndi_tally_states_ = last[s].tally
                /\ worker[s].pc # "exited"
        /\ last[s].prevBad => Whole(s)

\* C9 Length mismatch is dropped: a VISCA datagram whose length field
\* differs from the number of payload bytes it carries causes no write to a
\* camera socket (server) or to a controller socket (client).
C9_LengthMismatchDropped ==
    LET Mismatch(d) == Len(d) >= 7 /\ At(d, 0) = VISCA /\ U16At(d, 5) # Len(d) - 7
    IN  /\ \A s \in Sessions :
              (Mismatch(last[s].dgram) /\ Whole(s)) => last[s].writes = << >>
        /\ Mismatch(clast.dgram) => clast.writes = << >>

\* C10 Routing errors drop the frame: a decoded VISCA frame whose camera_id
\* is in no table, or whose camera is not connected when
\* process_visca_message looks it up, causes no write to a camera socket and
\* no Response frame, then or later.
C10_RoutingErrorDrops ==
    \A s \in Sessions :
        ( /\ last[s].decoded
          /\ worker[s].pc # "process"
          /\ ~last[s].connAtDispatch )
        => last[s].writes = << >> /\ last[s].replies = << >>

\* C11 Payload validation gate: a VISCA message the server has decoded whose
\* payload is empty, or does not start with 81, 82 or 90, or does not end
\* with FF, causes no write to a camera socket; a decoded message that passes
\* the check, for a camera that is connected when it is looked up (no
\* connection having been closed), has its payload written to that camera.
C11_ValidationGate ==
    \A s \in Sessions :
        LET b == last[s].buffer
            r == ViscaDeserialize(Tail(b))
            data == r.msg.data
            passes == /\ data # << >>
                      /\ data[1] \in {129, 130, 144}
                      /\ data[Len(data)] = 255
        IN  (b # << >> /\ At(b, 0) = VISCA /\ r.ok)
            => /\ ~passes => last[s].writes = << >> /\ last[s].replies = << >>
               /\ ( /\ passes
                    /\ worker[s].pc # "process"
                    /\ last[s].connAtDispatch
                    /\ sends.closes = 0 )
                  => /\ last[s].writes # << >>
                     /\ last[s].writes[1] = << r.msg.camera_id, data >>

\* a decoded message without terminator has been dropped, and a decoded
\* message that passes has been written
C11_Witness ==
    /\ last[PeerSession].dgram = MismatchFrame
    /\ last[PeerSession].writes # << >>
    /\ worker[PeerSession].pc = "recv"

C11_WitnessDropped ==
    /\ last[PeerSession].dgram = UnterminatedFrame
    /\ Handled(PeerSession)
    /\ last[PeerSession].conn[3]
\* C12 Request timeout: a worker that waits for the reply of a camera
\* eventually gives the wait up, whether or not the camera replies, and the
\* datagrams queued behind the request are received in their turn.
C12_RequestTimeout ==
    \A s \in Sessions :
        /\ (worker[s].pc \in {"await1", "await2"})
              ~> (worker[s].pc \notin {"await1", "await2"})
        /\ (session[s] = "accepted" /\ srt_in[s] # << >>)
              ~> (srt_in[s] = << >> \/ worker[s].pc = "exited")

\* C13 Response goes to the originating client: the Response frames that the
\* worker of a session sent for the last request it received are the last
\* frames sent on that session, and no frame sent on a session carries the
\* sequence number of a request of another session.
C13_OriginatingClient ==
    \A s \in Sessions :
        LET r == last[s].replies
            o == srt_out[s]
        IN  /\ Len(r) <= Len(o)
            /\ SubSeq(o, Len(o) - Len(r) + 1, Len(o)) = r
            /\ \A t \in Sessions \ {s} : \A i \in 1..Len(o) :
                  U16At(o[i], 3) # SessionSequence(t)

\* both callers have a request in, one of them has been answered
C13_Witness ==
    /\ \A s \in Sessions : last[s].decoded
    /\ srt_out[PeerSession] # << >>
    /\ U16At(srt_out[PeerSession][1], 3) = SessionSequence(PeerSession)
    /\ srt_out[ClientSession] = << >>

\* the tally datagrams received and the ticks that followed them, in order
Heard ==
    LET NotWrite(e) == e.kind # "write"
    IN  SelectSeq(tally_log, NotWrite)

\* the tally commands written to the socket of camera id, in order
WrittenTo(id) ==
    LET ToCamera(e) == e.kind = "write" /\ e.camera_id = id
        w == SelectSeq(tally_log, ToCamera)
    IN  [i \in 1..Len(w) |-> w[i].bytes]

\* C14 Tally emission only on change: a tick writes at most one tally
\* command per camera, and only for a table state that differs from the
\* camera's current_tally_state; a camera gets no more commands than tally
\* datagrams were received, and between two commands to one camera a
\* datagram was received that differs from the one received last before the
\* first of them (the same datagram again and again gives one command at
\* most).
C14_TallyOnChange ==
    /\ [](\A id \in ServerCams :
            LET IsFrame(e) == e.kind = "frame"
                W == {i \in 1..Len(tally_log) :
                        tally_log[i].kind = "write" /\ tally_log[i].camera_id = id}
                F == {i \in 1..Len(tally_log) : tally_log[i].kind = "frame"}
            IN  /\ Cardinality(W) <= Cardinality(F)
                /\ \A i \in W : \E f \in F : f < i
                /\ \A i, j \in W :
                      i < j =>
                        LET before == CHOOSE f \in F :
                                         f < i /\ \A g \in F : g < i => g <= f
                        IN  \E k \in F :
                               /\ i < k /\ k < j
                               /\ tally_log[k].bytes # tally_log[before].bytes)
    /\ [][\A id \in ServerCams :
            LET added == SubSeq(tally_log', Len(tally_log) + 1, Len(tally_log'))
                ToCamera(e) == e.kind = "write" /\ e.camera_id = id
                w == SelectSeq(added, ToCamera)
                name == ndi_mapping[id].ndi_source_name
            IN  /\ Len(w) <= 1
                /\ Len(w) = 1 =>
                      /\ name \in DOMAIN ndi_tally_states_
                      /\ w[1].state = ndi_tally_states_[name]
                      /\ w[1].state # current_tally_state[id]
                      /\ current_tally_state'[id] = w[1].state]_vars

\* the same datagram was received twice, a tick followed each time, and
\* camera 1 was sent one command
C14_Witness ==
    /\ Len(Heard) = 4
    /\ Heard[1].kind = "frame" /\ Heard[2].kind = "tick"
    /\ Heard[3].kind = "frame" /\ Heard[4].kind = "tick"
    /\ Heard[3].bytes = Heard[1].bytes
    /\ Heard[2].conn[1] /\ Heard[4].conn[1]
    /\ Len(WrittenTo(1)) = 1

\* two datagrams changed the state of source A twice and camera 1 was sent
\* two commands
C14_WitnessChange ==
    /\ Len(WrittenTo(1)) = 2
    /\ WrittenTo(1)[1] # WrittenTo(1)[2]

\* C15 Tally transition sequence: when source A has gone Program, then
\* Preview, then Off, a tick having followed each datagram with camera 1
\* (mapped to A, both flags set) connected, camera 1 has been sent the
\* program, the preview and the off command, in that order and nothing else;
\* and likewise after the first and after the second step.
C15_TallyTransition ==
    LET S4 == << TallyAProgram, TallyAPreview, TallyAOff >>
        commands == << ndi_mapping[1].program_tally_command,
                       ndi_mapping[1].preview_tally_command,
                       ndi_mapping[1].tally_off_command >>
    IN  \A k \in 1..3 :
          ( /\ ndi_mapping[1].ndi_source_name = SourceA
            /\ config_[1].ndi_mapping.tally_program_enabled
            /\ config_[1].ndi_mapping.tally_preview_enabled
            /\ Len(Heard) = 2 * k
            /\ \A i \in 1..k :
                  /\ Heard[2 * i - 1].kind = "frame"
                  /\ Heard[2 * i - 1].bytes = S4[i]
                  /\ Heard[2 * i].kind = "tick"
                  /\ Heard[2 * i].conn[1] )
          => WrittenTo(1) = SubSeq(commands, 1, k)

\* C16 ProgramPreview mapping: a tally command written for the state
\* ProgramPreview is the program command of the camera's mapping.
C16_ProgramPreviewMapping ==
    \A i \in 1..Len(tally_log) :
        (tally_log[i].kind = "write" /\ tally_log[i].state = PROGRAM_PREVIEW)
        => tally_log[i].bytes
             = ndi_mapping[tally_log[i].camera_id].program_tally_command

\* C17 Tally enable flags: no command is written for Program to a camera
\* whose mapping has tally_program_enabled cleared, none for Preview to a
\* camera whose mapping has tally_preview_enabled cleared; and once a tick
\* has observed such a state with the camera connected, current_tally_state
\* is that state.
C17_TallyEnableFlags ==
    \A id \in ServerCams :
        LET configured == {i \in 1..Len(config_) : config_[i].id = id}
            mapping == config_[CHOOSE i \in configured : TRUE].ndi_mapping
            name == mapping.source_name
            Disabled(state) ==
                \/ state = PROGRAM /\ ~mapping.tally_program_enabled
                \/ state = PREVIEW /\ ~mapping.tally_preview_enabled
        IN  /\ \A i \in 1..Len(tally_log) :
                  (tally_log[i].kind = "write" /\ tally_log[i].camera_id = id)
                  => ~Disabled(tally_log[i].state)
            /\ ( /\ name \in DOMAIN ndi_tally_states_
                 /\ Disabled(ndi_tally_states_[name])
                 /\ Heard # << >>
                 /\ Heard[Len(Heard)].kind = "tick"
                 /\ Heard[Len(Heard)].conn[id] )
               => current_tally_state[id] = ndi_tally_states_[name]

\* C18 Tally ingress is last-write-wins with no side effects: once the
\* worker has finished with a tally datagram (tag, state, name length,
\* timestamp, name), the table holds the datagram's state for the
\* datagram's source and what it held before for every other source,
\* nothing was written to a camera and nothing was sent to the caller.
C18_TallyIngress ==
    \A s \in Sessions :
        LET d == last[s].dgram
            name == SubSeq(d, 8, Len(d))
            state == At(d, 1)
            old == last[s].tally
        IN  ( /\ Handled(s)
              /\ Whole(s)
              /\ Len(d) >= 7
              /\ At(d, 0) = 2
              /\ Len(d) = 7 + At(d, 2) )
            => /\ DOMAIN ndi_tally_states_ = DOMAIN old \cup {name}
               /\ ndi_tally_states_[name] = state
               /\ \A n \in DOMAIN old \ {name} : ndi_tally_states_[n] = old[n]
               /\ last[s].writes = << >>
               /\ last[s].replies = << >>

\* the process of program p has ended: its main thread has returned
Exited(p) == thread[IF p = "server" THEN "main" ELSE "cmain"] = "exited"

\* every task of program p has terminated: its threads and, for the server,
\* the worker of every caller it accepted
Terminated(p) ==
    IF p = "server"
    THEN /\ \A t \in ServerThreads : thread[t] = "exited"
         /\ \A s \in Sessions : worker[s].pc \in {"none", "exited"}
    ELSE \A t \in ClientThreads : thread[t] = "exited"

\* C19 Signals lead to shutdown: once SIGINT or SIGTERM has been delivered
\* to the running server or client, that program eventually has its
\* running flag cleared, its SRT socket closed, its TCP connections closed,
\* and has exited.
C19_SignalsLeadToShutdown ==
    \A p \in Programs :
        (~g_running[p])
        ~> ( /\ ~running[p]
             /\ Exited(p)
             /\ IF p = "server"
                THEN /\ \A s \in Sessions : session[s] = "closed"
                     /\ \A id \in ServerCams : camLink[id] # "up"
                ELSE /\ session[ClientSession] = "closed"
                     /\ \A id \in Endpoints : epLink[id] # "up" )

\* C20 Shutdown liveness: once stop() has cleared the running flag of a
\* program, its tally thread, monitor thread, accept loop, response reader
\* and the worker of every accepted caller eventually terminate.
C20_ShutdownLiveness ==
    \A p \in Programs : (~running[p]) ~> Terminated(p)

\* C21 Lock ordering: whenever a thread of the server has taken one of the
\* mutexes of the cameras, of the tally table and of the queues while it
\* held another, it took them in the order cameras, tally table, queues.
C21_LockOrdering ==
    LET rank == [m \in {"cameras_mutex", "ndi_tally_mutex_", "queues_mutex"} |->
                   CASE m = "cameras_mutex" -> 1
                     [] m = "ndi_tally_mutex_" -> 2
                     [] OTHER -> 3]
    IN  \A pair \in lock_order : rank[pair[1]] < rank[pair[2]]

\* C22 Cross-camera independence: while the worker of one session waits for
\* the reply of camera A, the worker of another session that has decoded a
\* request for a different camera B, connected and up, can forward it: it
\* does not have to wait for A's request to complete.
C22_CrossCameraIndependence ==
    \A s \in Sessions : \A t \in Sessions \ {s} :
        LET a == worker[s].msg.camera_id
            b == worker[t].msg.camera_id
        IN  ( /\ worker[s].pc \in {"await1", "await2"}
              /\ worker[t].pc = "process"
              /\ b # a
              /\ CameraUsable(b)
              /\ camLink[b] = "up" )
            => ENABLED WorkerProcess(t)

\* C23 Per-camera FIFO: a caller sends commands for one camera in the order
\* of their sequence numbers.  Every payload written to the camera while the
\* worker handles a frame is the payload of that frame, so the payloads are
\* written in the order the frames were received; every Response sent on
\* the session carries the sequence number of the frame the worker is
\* handling, and the sequence numbers of the Responses sent so far never
\* decrease.
C23_PerCameraFifo ==
    /\ [](LET s == PeerSession
              o == srt_out[s]
              received == sends.peer - Len(srt_in[s])
              frame == CommandFrames[received]
          IN  received > 0 =>
                /\ \A i \in 1..Len(last[s].writes) :
                      last[s].writes[i]
                        = << At(frame, 3), SubSeq(frame, 9, Len(frame)) >>
                /\ \A i \in 1..Len(o) :
                      /\ At(o[i], 1) = RESPONSE
                      /\ At(o[i], 2) = At(frame, 3)
                      /\ U16At(o[i], 3) \in 1..received
                      /\ \A j \in i..Len(o) : U16At(o[i], 3) <= U16At(o[j], 3))
    /\ [][LET s == PeerSession
              o == srt_out[s]
              frame == CommandFrames[sends.peer - Len(srt_in[s])]
          IN  Len(srt_out'[s]) > Len(o)
                => U16At(srt_out'[s][Len(o) + 1], 3) = U16At(frame, 4)]_vars

\* both commands have been written to camera 3 and answered
C23_Witness ==
    LET o == srt_out[PeerSession]
    IN  /\ Len(o) >= 2
        /\ U16At(o[1], 3) = 1
        /\ U16At(o[Len(o)], 3) = 2
        /\ last[PeerSession].writes
             = << << 3, << 129, 255 >> >>, << 3, << 129, 255 >> >> >>

C25_NoLockAcrossIo ==
    \A s \in Sessions :
      worker[s].pc \in {"await1", "await2"} => cameras_mutex = "free"

\* C26 current_tally_state tracks only successful sends: in every state the
\* current_tally_state of a camera is the state of the last tally command
\* written to its socket, Off if none was; a step that writes no tally
\* command to a camera (a tick whose send() fails or that finds the camera
\* not connected included) leaves its current_tally_state unchanged.
C26_CurrentTallyTracksSends ==
    /\ [](\A id \in ServerCams :
            LET ToCamera(e) == e.kind = "write" /\ e.camera_id = id
                w == SelectSeq(tally_log, ToCamera)
            IN  current_tally_state[id] =
                  IF w = << >> THEN OFF ELSE w[Len(w)].state)
    /\ [][\A id \in ServerCams :
            LET added == SubSeq(tally_log', Len(tally_log) + 1, Len(tally_log'))
                ToCamera(e) == e.kind = "write" /\ e.camera_id = id
            IN  SelectSeq(added, ToCamera) = << >>
                => current_tally_state'[id] = current_tally_state[id]]_vars

\* camera 1 was sent a tally command, the state of its source changed, and
\* the tick that followed found camera 1 without a usable connection: the
\* table state differs from current_tally_state
C26_Witness ==
    /\ Len(WrittenTo(1)) >= 1
    /\ tally_log # << >>
    /\ tally_log[Len(tally_log)].kind = "tick"
    /\ ~tally_log[Len(tally_log)].conn[1]
    /\ SourceA \in DOMAIN ndi_tally_states_
    /\ ndi_tally_states_[SourceA] # current_tally_state[1]
    /\ current_tally_state[1] # OFF

C28_DispatchBySubtype ==
    \A s \in Sessions :
      LET d == last[s].dgram
          wellFormed == /\ Len(d) >= 7
                        /\ At(d, 0) = VISCA
                        /\ Len(d) = 7 + U16At(d, 5)
      IN  wellFormed /\ last[s].writes # << >>
          => /\ (worker[s].pc \in {"await1", "await2"} \/ last[s].replies # << >>)
                  => At(d, 1) \in {COMMAND, INQUIRY}
             /\ At(d, 1) \in {RESPONSE, ERROR}
                  => /\ worker[s].pc \notin {"await1", "await2"}
                     /\ last[s].replies = << >>

\* C29 Write failure marks the endpoint disconnected: when
\* process_visca_message finds the camera of a decoded command connected and
\* its send() fails, the camera's connected flag is false afterwards.
C29_WriteFailureDisconnects ==
    [][\A s \in Sessions :
         LET id == worker[s].msg.camera_id
         IN  /\ worker[s].pc = "process"
             /\ worker'[s].pc # "process"
             /\ CameraUsable(id)
             /\ camLink[id] # "up"
             => ~cameras'[id].connected]_vars

\* C30 Connector lifecycle: when a recv() on the socket of a camera returns
\* zero or an error the socket is closed and the camera is marked not
\* connected; and a camera becomes connected only by a connect that
\* succeeded, which leaves a fresh connection.
C30_ConnectorLifecycle ==
    [][\A id \in ServerCams :
         /\ \A s \in Sessions :
               /\ worker[s].pc \in {"await1", "await2"}
               /\ worker[s].msg.camera_id = id
               /\ worker'[s].pc \notin {"await1", "await2"}
               /\ fromCamera[id] = << >>
               => /\ ~cameras'[id].connected
                  /\ camLink'[id] = "none"
         /\ ~cameras[id].connected /\ cameras'[id].connected
               => /\ camLink'[id] = "up"
                  /\ fromCamera'[id] = << >>]_vars

\* C31 SRT handle closed exactly once: no SRT handle is closed twice, and a
\* handle whose SrtSocket has been destroyed has been closed.
C31_SrtHandleClosedOnce ==
    \A h \in SrtHandles :
      /\ srt_sockets[h].closes <= 1
      /\ srt_sockets[h].wrapper = "destroyed" => srt_sockets[h].closes = 1

\* C32 Exactly-once forwarding: for a datagram that was decoded and
\* validated and whose camera was connected when process_visca_message
\* looked it up, the payload has been written to the camera at most once
\* and at most one Response has been sent, and once the worker is back at
\* srt_recv and the camera has stayed connected it was written exactly
\* once.
C32_ExactlyOnceForwarding ==
    \A s \in Sessions :
      last[s].decoded /\ last[s].connAtDispatch
      => /\ Len(last[s].writes) <= 1
         /\ Len(last[s].replies) <= 1
         /\ worker[s].pc = "recv" /\ camLink[last[s].msg.camera_id] = "up"
               => Len(last[s].writes) = 1

\* C33 Response payload belongs to its request: the bytes a worker returns
\* as the Response to a request were sent by the camera after the request
\* was written to it; so when a worker has written a request and starts to
\* wait in recv(), no bytes the camera sent earlier are unread on the socket.
C33_ResponseBelongsToRequest ==
    [][\A s \in Sessions :
         /\ worker[s].pc \notin {"await1", "await2"}
         /\ worker'[s].pc \in {"await1", "await2"}
         => fromCamera[worker'[s].msg.camera_id] = << >>]_vars

\* C34 Tally convergence: if from some point on the table holds state st for
\* the source of a camera, the camera stays connected and a command is
\* configured for st, then from some point on the camera's
\* current_tally_state is st.
C34_TallyConvergence ==
    \A id \in ServerCams : \A st \in {OFF, PROGRAM, PREVIEW} :
      <>[](/\ ndi_mapping[id].ndi_source_name # << >>
           /\ ndi_mapping[id].ndi_source_name \in DOMAIN ndi_tally_states_
           /\ ndi_tally_states_[ndi_mapping[id].ndi_source_name] = st
           /\ cameras[id].connected
           /\ camLink[id] = "up"
           /\ TallyCommand(ndi_mapping[id], st) # << >>)
      => <>[](current_tally_state[id] = st)

\* C35 Mapping assignment by camera id: the camera with id X has the source
\* name and the program, preview and off commands of the entry of the
\* "cameras" array whose id is X.
C35_MappingByCameraId ==
    \A id \in ServerCams : \A i \in 1..Len(config_) :
      config_[i].id = id
      => /\ ndi_mapping[id].ndi_source_name = config_[i].ndi_mapping.source_name
         /\ ndi_mapping[id].program_tally_command
              = config_[i].ndi_mapping.commands.program
         /\ ndi_mapping[id].preview_tally_command
              = config_[i].ndi_mapping.commands.preview
         /\ ndi_mapping[id].tally_off_command
              = config_[i].ndi_mapping.commands.off

\* C36 No worker outlives the peer object: once stop() has returned, the
\* monitor thread and the response reader of the client have ended, and so
\* have the monitor thread and every caller's worker of the server.
C36_NoWorkerOutlivesObject ==
    /\ thread.cmain = "cleanup"
         => thread.cmonitor = "exited" /\ thread.creader = "exited"
    /\ thread.main = "cleanup"
         => /\ thread.monitor = "exited"
            /\ thread.tally = "exited"
            /\ \A s \in Sessions : worker[s].pc \in {"none", "exited"}

\* C37 One open TCP descriptor per endpoint: a camera marked connected has
\* an open descriptor, and a camera is connected anew only when its earlier
\* descriptor has been closed.
C37_OneDescriptorPerEndpoint ==
    /\ [](\A id \in ServerCams : cameras[id].connected => camLink[id] # "none")
    /\ [][\A id \in ServerCams :
            ~cameras[id].connected /\ cameras'[id].connected
            => camLink[id] = "none"]_vars

=============================================================================
